---- MODULE Spec2Model ----
(***************************************************************************)
(* The CLI process supervisor of packages/tauri-app/src-tauri/src/         *)
(* cli_manager.rs (CliProcessManager) with the host command cli_restart    *)
(* of main.rs.                                                             *)
(*                                                                         *)
(* Threads: one host thread calling start / stop / cli_restart, and per    *)
(* run (one run per start call) the setup worker of start, and the output  *)
(* monitor, the readiness timer and the exit watcher that spawn_cli        *)
(* spawns.  The two parking_lot mutexes (status, child) are modelled by    *)
(* their owner whenever a thread keeps one across a blocking operation;    *)
(* a critical section that cannot block inside is one atomic action        *)
(* guarded by the mutex being free.                                        *)
(*                                                                         *)
(* The environment is the child process: it may exit at any time (on its   *)
(* own or in answer to SIGTERM), it dies on SIGKILL / Child::kill, and it  *)
(* may print any line of ChildLines on either stream.                      *)
(*                                                                         *)
(* The monitor takes the stdout and the stderr pipe out of the Child under *)
(* two consecutive acquisitions of the child mutex; the model takes both   *)
(* in one step.  It then drains stdout to end-of-stream and stderr after   *)
(* it; both end when the child has exited, and a line has the same effect  *)
(* on either stream, so the two loops are one read position.               *)
(*                                                                         *)
(* One iteration of process_stream's loop (read_line, the ready.load() and *)
(* the matching) is one step, MonitorSkip or MonitorLine, over the lines   *)
(* of ChildLines.  LineSpec follows one run with the iteration split into  *)
(* read_line (MonitorRead) and the matching of the line in the buffer      *)
(* (MonitorMatch), over the lines of LineInputs.                            *)
(***************************************************************************)
EXTENDS Integers, Sequences, FiniteSets, TLC

\* Number of start and cli_restart calls (runs) the host issues.
MaxRuns == 2

\* Number of stop calls the host issues itself (start and cli_restart call
\* stop besides).
MaxStops == 1

Runs == 1..MaxRuns

\* Number of built-artifact candidate paths resolve_dist_entry probes (the
\* code probes up to 28).
DistCandidates == 3

\* Length of the tokens given to shell_escape.
MaxTokenLen == 3

VARIABLES
    status,      \* CliStatus behind Arc<Mutex<CliStatus>>
    ready,       \* Arc<AtomicBool>
    holder,      \* Option<Child> behind Arc<Mutex<Option<Child>>>: <<>> or <<c>>
    childLock,   \* owner of the child mutex
    statusLock,  \* owner of the status mutex
    alive,       \* spawned child processes that have not exited
    taken,       \* children whose stdout/stderr pipes were taken out of the Child
    observed,    \* runs whose monitor ran mark_ready and whose exit watcher
                 \* has not classified the exit yet
    readyAlive,  \* runs whose monitor ran mark_ready while the child of the
                 \* run was running, and whose exit watcher has not
                 \* classified the exit yet
    events,      \* events emitted to the host by the last step
    cpc,         \* host thread: position
    cop,         \* host thread: operation called last
    cphase,      \* host thread: which stop() is running
    cchild,      \* host thread: the Child taken by stop()
    nruns,       \* number of setup workers spawned so far
    nstops,      \* number of stop calls of the host so far
    wpc,         \* setup worker of run r: position
    mpc,         \* output monitor of run r: position
    msrc,        \* output monitor of run r: the child whose pipes it reads
    mport,       \* output monitor of run r: port passed to mark_ready
    buffer,      \* output monitor of run r: the line read_line has put in
                 \* buffer and process_stream has not matched yet
    tpc,         \* readiness timer of run r: position
    xpc,         \* exit watcher of run r: position
    xchild,      \* exit watcher of run r: the child it waited for
    dev,         \* CliEntry::resolve: the dev argument
    disk,        \* CliEntry::resolve: which candidate paths exist on disk
    resolution,  \* CliEntry::resolve: the result, once it has returned
    token,       \* shell_escape: the input
    quoted       \* shell_escape: the result, once it has returned

vars == <<status, ready, holder, childLock, statusLock, alive, taken,
          observed, readyAlive, events, cpc, cop, cphase, cchild, nruns, nstops, wpc,
          mpc, msrc, mport, buffer, tpc, xpc, xchild, dev, disk, resolution,
          token, quoted>>

-----------------------------------------------------------------------------
(* Option<T>: None is <<>>, Some(v) is <<v>>. *)

None == <<>>

Some(v) == <<v>>

IsSome(o) == o # <<>>

\* enum CliState
CliState == {"Starting", "Ready", "Error", "Stopped"}

\* impl Default for CliStatus
DefaultStatus ==
    [state |-> "Stopped", pid |-> None, port |-> None, url |-> None,
     error |-> None]

FreeLock == <<"free", 0>>

-----------------------------------------------------------------------------
(* Status updates, each the body of one critical section on the status     *)
(* mutex.                                                                  *)

\* start: the reset to Starting
StartingStatus(s) ==
    [s EXCEPT !.state = "Starting", !.port = None, !.url = None,
              !.error = None, !.pid = None]

\* stop's reset without "status.error = None".
StoppedStatusKeepsError(s) ==
    [s EXCEPT !.state = "Stopped", !.pid = None, !.port = None,
              !.url = None]

\* stop: the unconditional reset
StoppedStatus(s) ==
    [s EXCEPT !.state = "Stopped", !.pid = None, !.port = None,
              !.url = None, !.error = None]

\* start: the setup worker's failure handler
SpawnFailedStatus(s, err) ==
    [s EXCEPT !.state = "Error", !.error = Some(err)]

\* spawn_cli: record the pid
PidStatus(s, pid) == [s EXCEPT !.pid = Some(pid)]

TimeoutMessage == "CLI did not start in time"

\* spawn_cli, timer thread
TimeoutStatus(s) ==
    [s EXCEPT !.state = "Error", !.error = Some(TimeoutMessage)]

\* format!("http://127.0.0.1:{port}")
ReadyUrl(port) == <<"http://127.0.0.1:", port>>

\* mark_ready without "locked.url = Some(url.clone())".
MarkReadyStatusPortOnly(s, port) ==
    [s EXCEPT !.port = Some(port), !.state = "Ready", !.error = None]

\* mark_ready
MarkReadyStatus(s, port) ==
    [s EXCEPT !.port = Some(port), !.url = Some(ReadyUrl(port)),
              !.state = "Ready", !.error = None]

\* spawn_cli, exit watcher: err_msg; code is Some(exit status) or None
EarlyExitMessage(code) ==
    IF IsSome(code) THEN "CLI exited early: exit status" ELSE "CLI exited early"

\* spawn_cli, exit watcher: let failed = locked.state != CliState::Ready
ExitFailed(s) == s.state # "Ready"

\* The exit watcher without "if locked.error.is_none() { locked.error =
\* err_msg }": a failed exit that records no message.
ExitStatusWithoutMessage(s, code) ==
    IF ExitFailed(s)
    THEN [s EXCEPT !.state = "Error"]
    ELSE [s EXCEPT !.state = "Stopped"]

\* The exit watcher without "if locked.error.is_none()": a failed exit
\* always records the early-exit message.
ExitStatusOverwrites(s, code) ==
    IF ExitFailed(s)
    THEN [s EXCEPT !.state = "Error", !.error = Some(EarlyExitMessage(code))]
    ELSE [s EXCEPT !.state = "Stopped"]

\* spawn_cli, exit watcher: the classification of the exit
ExitStatus(s, code) ==
    IF ExitFailed(s)
    THEN [s EXCEPT !.state = "Error",
                   !.error = IF s.error = None
                             THEN Some(EarlyExitMessage(code))
                             ELSE s.error]
    ELSE [s EXCEPT !.state = "Stopped"]

\* Events
StatusEvent(s) == [name |-> "cli:status", payload |-> s]

ErrorEvent(msg) == [name |-> "cli:error", payload |-> [message |-> msg]]

ReadyEvent(s) == [name |-> "cli:ready", payload |-> s]

\* locked.error.clone().unwrap_or_default()
UnwrapOrDefault(o) == IF IsSome(o) THEN o[1] ELSE ""

-----------------------------------------------------------------------------
\* CliProcessManager::new, and no worker started
ManagerInit ==
    /\ status = DefaultStatus
    /\ ready = FALSE
    /\ holder = None
    /\ childLock = FreeLock
    /\ statusLock = FreeLock
    /\ alive = {}
    /\ taken = {}
    /\ observed = {}
    /\ readyAlive = {}
    /\ events = <<>>
    /\ cpc = "idle"
    /\ cop = "none"
    /\ cphase = "stop"
    /\ cchild = None
    /\ nruns = 0
    /\ nstops = 0
    /\ wpc = [r \in Runs |-> "idle"]
    /\ mpc = [r \in Runs |-> "idle"]
    /\ msrc = [r \in Runs |-> None]
    /\ mport = [r \in Runs |-> None]
    /\ buffer = [r \in Runs |-> None]
    /\ tpc = [r \in Runs |-> "idle"]
    /\ xpc = [r \in Runs |-> "idle"]
    /\ xchild = [r \in Runs |-> None]

\* No candidate path exists on disk.
EmptyDisk ==
    [tsx |-> <<FALSE, FALSE>>, dev_entry |-> <<FALSE, FALSE>>,
     dist |-> [i \in 1..DistCandidates |-> FALSE]]

\* Neither CliEntry::resolve nor shell_escape has been called.
CommandInit ==
    /\ dev = FALSE
    /\ disk = EmptyDisk
    /\ resolution = None
    /\ token = <<>>
    /\ quoted = None

Init == ManagerInit /\ CommandInit

-----------------------------------------------------------------------------
(* Variable groups for UNCHANGED. *)

hostVars == <<cpc, cop, cphase, cchild, nstops>>

workerVars == <<wpc>>

monitorVars == <<mpc, msrc, mport, buffer>>

timerVars == <<tpc>>

watcherVars == <<xpc, xchild>>

pipeVars == <<taken, readyAlive>>

commandVars == <<dev, disk, resolution, token, quoted>>

managerVars ==
    <<status, ready, holder, childLock, statusLock, alive, taken, observed,
      readyAlive, events, cpc, cop, cphase, cchild, nruns, nstops, wpc, mpc,
      msrc, mport, buffer, tpc, xpc, xchild>>

-----------------------------------------------------------------------------
(* The host thread.  main.rs calls manager.start at setup, manager.stop on *)
(* window close / exit, and cli_restart on command.                        *)

\* CliProcessManager::stop is entered (called by the host)
CallStop ==
    /\ cpc = "idle"
    /\ nstops < MaxStops
    /\ nstops' = nstops + 1
    /\ cpc' = "stop_lock"
    /\ cop' = "stop"
    /\ cphase' = "stop"
    /\ events' = <<>>
    /\ UNCHANGED <<commandVars, status, ready, holder, childLock, statusLock, alive,
                   pipeVars, observed, cchild, nruns, workerVars,
                   monitorVars, timerVars, watcherVars>>

\* CliProcessManager::start is entered: its first statement is self.stop()?
CallStart ==
    /\ cpc = "idle"
    /\ nruns < MaxRuns
    /\ cpc' = "stop_lock"
    /\ cop' = "start"
    /\ cphase' = "start_stop"
    /\ events' = <<>>
    /\ UNCHANGED <<commandVars, nstops, status, ready, holder, childLock, statusLock, alive,
                   pipeVars, observed, cchild, nruns, workerVars,
                   monitorVars, timerVars, watcherVars>>

\* cli_restart is entered: manager.stop(), then manager.start(), then status()
CallRestart ==
    /\ cpc = "idle"
    /\ nruns < MaxRuns
    /\ cpc' = "stop_lock"
    /\ cop' = "restart"
    /\ cphase' = "restart_stop"
    /\ events' = <<>>
    /\ UNCHANGED <<commandVars, nstops, status, ready, holder, childLock, statusLock, alive,
                   pipeVars, observed, cchild, nruns, workerVars,
                   monitorVars, timerVars, watcherVars>>

\* stop: self.child.lock() and child_opt.take(); with a child, SIGTERM is
\* sent (the child may answer by exiting, see ChildExit).  The guard
\* child_opt lives until stop returns.
StopLock ==
    /\ cpc = "stop_lock"
    /\ childLock = FreeLock
    /\ childLock' = <<"stop", 0>>
    /\ cchild' = holder
    /\ holder' = None
    /\ cpc' = IF IsSome(holder) THEN "stop_poll" ELSE "stop_status"
    /\ events' = <<>>
    /\ UNCHANGED <<commandVars, nstops, status, ready, statusLock, alive, pipeVars, observed,
                   cop, cphase, nruns, workerVars, monitorVars, timerVars,
                   watcherVars>>

\* stop: the try_wait loop.  It ends when the child has exited, or with
\* SIGKILL once the 4 s grace period has elapsed.
StopPoll ==
    /\ cpc = "stop_poll"
    /\ alive' = alive \ {cchild[1]}
    /\ cpc' = "stop_status"
    /\ events' = <<>>
    /\ UNCHANGED <<commandVars, nstops, status, ready, holder, childLock, statusLock, pipeVars,
                   observed, cop, cphase, cchild, nruns, workerVars,
                   monitorVars, timerVars, watcherVars>>

\* Where the host thread continues when a stop() returns.
StopContinuation ==
    CASE cphase = "stop" -> "idle"
      [] cphase = "restart_stop" -> "stop_lock"
      [] cphase = "start_stop" -> "start_ready"

\* stop: self.status.lock(), the reset, and the return (both guards drop).
StopStatus ==
    /\ cpc = "stop_status"
    /\ statusLock = FreeLock
    /\ status' = StoppedStatus(status)
    /\ childLock' = FreeLock
    /\ cchild' = None
    /\ cpc' = StopContinuation
    /\ cphase' = IF cphase = "restart_stop" THEN "start_stop" ELSE "stop"
    /\ events' = <<>>
    /\ UNCHANGED <<commandVars, nstops, ready, holder, statusLock, alive, pipeVars, observed,
                   cop, nruns, workerVars, monitorVars, timerVars,
                   watcherVars>>

\* start: self.ready.store(false)
StartReady ==
    /\ cpc = "start_ready"
    /\ ready' = FALSE
    /\ cpc' = "start_set"
    /\ events' = <<>>
    /\ UNCHANGED <<commandVars, nstops, status, holder, childLock, statusLock, alive, pipeVars,
                   observed, cop, cphase, cchild, nruns, workerVars,
                   monitorVars, timerVars, watcherVars>>

\* start: the block that sets Starting under the status lock
StartSet ==
    /\ cpc = "start_set"
    /\ statusLock = FreeLock
    /\ status' = StartingStatus(status)
    /\ cpc' = "start_emit"
    /\ events' = <<>>
    /\ UNCHANGED <<commandVars, nstops, ready, holder, childLock, statusLock, alive, pipeVars,
                   observed, cop, cphase, cchild, nruns, workerVars,
                   monitorVars, timerVars, watcherVars>>

\* start: Self::emit_status(&app, &self.status.lock())
StartEmit ==
    /\ cpc = "start_emit"
    /\ statusLock = FreeLock
    /\ events' = <<StatusEvent(status)>>
    /\ cpc' = "start_spawn"
    /\ UNCHANGED <<commandVars, nstops, status, ready, holder, childLock, statusLock, alive,
                   pipeVars, observed, cop, cphase, cchild, nruns,
                   workerVars, monitorVars, timerVars, watcherVars>>

\* start: thread::spawn of the setup worker, and Ok(())
StartSpawn ==
    /\ cpc = "start_spawn"
    /\ nruns' = nruns + 1
    /\ wpc' = [wpc EXCEPT ![nruns + 1] = "resolve"]
    /\ cpc' = IF cop = "restart" THEN "restart_status" ELSE "idle"
    /\ events' = <<>>
    /\ UNCHANGED <<commandVars, nstops, status, ready, holder, childLock, statusLock, alive,
                   pipeVars, observed, cop, cphase, cchild, monitorVars,
                   timerVars, watcherVars>>

\* cli_restart: Ok(state.manager.status())
RestartStatus ==
    /\ cpc = "restart_status"
    /\ statusLock = FreeLock
    /\ cpc' = "idle"
    /\ events' = <<>>
    /\ UNCHANGED <<commandVars, nstops, status, ready, holder, childLock, statusLock, alive,
                   pipeVars, observed, cop, cphase, cchild, nruns,
                   workerVars, monitorVars, timerVars, watcherVars>>

HostCall == CallStop \/ CallStart

HostCallRestart == CallStart \/ CallRestart

HostStep ==
    \/ StopLock
    \/ StopPoll
    \/ StopStatus
    \/ StartReady
    \/ StartSet
    \/ StartEmit
    \/ StartSpawn

-----------------------------------------------------------------------------
(* The setup worker of run r: the closure start spawns, which runs         *)
(* spawn_cli.  The child of run r is child r, and its pid is r.            *)

\* The error spawn_cli returns: CliEntry::resolve's (which::which's and
\* c.spawn()?'s errors take the same path with another text).
SetupErrors ==
    {"Unable to locate CodeNomad CLI build (dist/bin.js). Please build @neuralnomads/codenomad."}

\* start: spawn_cli returned Err; the failure handler
SetupFail(r) ==
    /\ wpc[r] = "resolve"
    /\ statusLock = FreeLock
    /\ \E err \in SetupErrors :
          /\ status' = SpawnFailedStatus(status, err)
          /\ events' = <<ErrorEvent(err), StatusEvent(status')>>
    /\ wpc' = [wpc EXCEPT ![r] = "done"]
    /\ UNCHANGED <<commandVars, ready, holder, childLock, statusLock, alive, pipeVars,
                   observed, hostVars, nruns, monitorVars, timerVars,
                   watcherVars>>

\* spawn_cli: resolution succeeded and c.spawn()? created the child
SetupSpawn(r) ==
    /\ wpc[r] = "resolve"
    /\ alive' = alive \cup {r}
    /\ wpc' = [wpc EXCEPT ![r] = "setpid"]
    /\ events' = <<>>
    /\ UNCHANGED <<commandVars, status, ready, holder, childLock, statusLock, pipeVars,
                   observed, hostVars, nruns, monitorVars, timerVars,
                   watcherVars>>

\* spawn_cli: locked.pid = Some(pid)
SetupPid(r) ==
    /\ wpc[r] = "setpid"
    /\ statusLock = FreeLock
    /\ status' = PidStatus(status, r)
    /\ wpc' = [wpc EXCEPT ![r] = "emitpid"]
    /\ events' = <<>>
    /\ UNCHANGED <<commandVars, ready, holder, childLock, statusLock, alive, pipeVars,
                   observed, hostVars, nruns, monitorVars, timerVars,
                   watcherVars>>

\* spawn_cli: Self::emit_status(&app, &status.lock())
SetupEmitPid(r) ==
    /\ wpc[r] = "emitpid"
    /\ statusLock = FreeLock
    /\ events' = <<StatusEvent(status)>>
    /\ wpc' = [wpc EXCEPT ![r] = "store"]
    /\ UNCHANGED <<commandVars, status, ready, holder, childLock, statusLock, alive,
                   pipeVars, observed, hostVars, nruns, monitorVars,
                   timerVars, watcherVars>>

\* spawn_cli: *holder = Some(child) (a Child already there is dropped, which
\* does not end its process), then the three thread::spawn calls
SetupStore(r) ==
    /\ wpc[r] = "store"
    /\ childLock = FreeLock
    /\ holder' = Some(r)
    /\ wpc' = [wpc EXCEPT ![r] = "done"]
    /\ mpc' = [mpc EXCEPT ![r] = "take"]
    /\ tpc' = [tpc EXCEPT ![r] = "sleep"]
    /\ xpc' = [xpc EXCEPT ![r] = "lock"]
    /\ events' = <<>>
    /\ UNCHANGED <<commandVars, status, ready, childLock, statusLock, alive, pipeVars,
                   observed, hostVars, nruns, msrc, mport, buffer, xchild>>

Setup(r) ==
    \/ SetupFail(r)
    \/ SetupSpawn(r)
    \/ SetupPid(r)
    \/ SetupEmitPid(r)
    \/ SetupStore(r)

-----------------------------------------------------------------------------
(* Lines of child output, and process_stream's extraction of a port.  A    *)
(* line is given by what the patterns of process_stream see in it.         *)

\* "CodeNomad Server is ready at http://127.0.0.1:<port>"
ReadyAtLine(p) == [kind |-> "ready_at", port |-> p]

\* "HTTP server listening on :<port>"
ListeningTextLine(p) == [kind |-> "listening_text", port |-> p]

\* {"msg":"http server listening","port":<port>}
ListeningJsonLine(p) == [kind |-> "listening_json", port |-> p]

\* any other non-empty line
OtherLine == [kind |-> "other", port |-> 0]

\* The lines a child prints.
ChildLines ==
    {ReadyAtLine(4821), ListeningTextLine(5050), OtherLine}

\* The port numbers printed in the lines LineSpec reads.
PortInputs == {0, 80, 4821, 5050, 6000, 65535, 65536, 70000}

\* The lines LineSpec reads.
LineInputs ==
    {ReadyAtLine(p) : p \in PortInputs}
        \cup {ListeningTextLine(p) : p \in PortInputs}
        \cup {ListeningJsonLine(p) : p \in PortInputs}
        \cup {OtherLine}

\* str::parse::<i16> in the place of parse::<u16>.
ParseI16(n) == IF n \in 0..32767 THEN Some(n) ELSE None

\* str::parse::<u16>
ParseU16(n) == IF n \in 0..65535 THEN Some(n) ELSE None

\* Regex::new(r"CodeNomad Server is ready at http://[^:]+:(\d+)").ok(),
\* captures(line) group 1
PortRegexCapture(line) ==
    IF line.kind = "ready_at" THEN Some(line.port) ELSE None

\* Regex::new(r":(\d{2,5})(?!.*:\d)").ok(): the regex crate rejects the
\* look-ahead (?!...) with a syntax error, so http_regex is None and
\* http_regex.as_ref().and_then(...) yields nothing for every line.
HttpRegexCapture(line) == None

\* line.to_lowercase().contains("http server listening")
ContainsListening(line) == line.kind \in {"listening_text", "listening_json"}

\* serde_json::from_str(line), value.get("port").and_then(|p| p.as_u64()),
\* then port as u16
JsonPort(line) ==
    IF line.kind = "listening_json" THEN Some(line.port % 65536) ELSE None

\* process_stream: the port of the first pattern that yields one
ExtractPort(line) ==
    LET first == IF IsSome(PortRegexCapture(line))
                 THEN ParseU16(PortRegexCapture(line)[1])
                 ELSE None
        second == IF IsSome(HttpRegexCapture(line))
                  THEN ParseU16(HttpRegexCapture(line)[1])
                  ELSE None
    IN  IF IsSome(first) THEN first
        ELSE IF ~ContainsListening(line) THEN None
        ELSE IF IsSome(second) THEN second
        ELSE JsonPort(line)

-----------------------------------------------------------------------------
(* The output monitor of run r.                                            *)

\* The Child in the holder, as a set.
Held == IF IsSome(holder) THEN {holder[1]} ELSE {}

\* child_clone.lock().as_mut().and_then(|c| c.stdout.take()), and the same
\* for stderr: the pipes of the Child in the holder, unless already taken
MonitorTake(r) ==
    /\ mpc[r] = "take"
    /\ childLock = FreeLock
    /\ msrc' = [msrc EXCEPT ![r] = IF Held \subseteq taken
                                   THEN None ELSE holder]
    /\ taken' = taken \cup Held
    /\ mpc' = [mpc EXCEPT ![r] = IF IsSome(msrc'[r]) THEN "read" ELSE "done"]
    /\ events' = <<>>
    /\ UNCHANGED <<commandVars, status, ready, holder, childLock, statusLock, alive,
                   observed, readyAlive, hostVars, nruns, workerVars, mport,
                   buffer, timerVars, watcherVars>>

\* process_stream: a line on which nothing happens: the ready flag is set
\* (continue), or no pattern yields a port
MonitorSkip(r) ==
    /\ mpc[r] = "read"
    /\ \E line \in ChildLines : ready \/ ~IsSome(ExtractPort(line))
    /\ events' = <<>>
    /\ UNCHANGED <<commandVars, status, ready, holder, childLock, statusLock, alive,
                   pipeVars, observed, hostVars, nruns, workerVars,
                   monitorVars, timerVars, watcherVars>>

\* process_stream: ready.load() is false and a pattern yields a port:
\* mark_ready is called
MonitorLine(r) ==
    /\ mpc[r] = "read"
    /\ ~ready
    /\ \E line \in ChildLines :
          /\ IsSome(ExtractPort(line))
          /\ mport' = [mport EXCEPT ![r] = ExtractPort(line)]
    /\ mpc' = [mpc EXCEPT ![r] = "mark_store"]
    /\ events' = <<>>
    /\ UNCHANGED <<commandVars, status, ready, holder, childLock, statusLock, alive,
                   pipeVars, observed, hostVars, nruns, workerVars, msrc,
                   buffer, timerVars, watcherVars>>

\* mark_ready: ready.store(true)
MonitorStoreReady(r) ==
    /\ mpc[r] = "mark_store"
    /\ ready' = TRUE
    /\ mpc' = [mpc EXCEPT ![r] = "mark_lock"]
    /\ events' = <<>>
    /\ UNCHANGED <<commandVars, status, holder, childLock, statusLock, alive, pipeVars,
                   observed, hostVars, nruns, workerVars, msrc, mport,
                   buffer, timerVars, watcherVars>>

\* mark_ready: status.lock() and the rest; back to the read loop
MonitorMarkReady(r) ==
    /\ mpc[r] = "mark_lock"
    /\ statusLock = FreeLock
    /\ status' = MarkReadyStatus(status, mport[r][1])
    /\ events' = <<ReadyEvent(status'), StatusEvent(status')>>
    /\ observed' = IF xpc[r] = "done" THEN observed ELSE observed \cup {r}
    /\ readyAlive' = IF xpc[r] # "done" /\ r \in alive
                     THEN readyAlive \cup {r} ELSE readyAlive
    /\ mport' = [mport EXCEPT ![r] = None]
    /\ mpc' = [mpc EXCEPT ![r] = "read"]
    /\ UNCHANGED <<commandVars, ready, holder, childLock, statusLock, alive, taken,
                   hostVars, nruns, workerVars, msrc, buffer, timerVars,
                   watcherVars>>

\* process_stream: read_line returns Ok(0) on stdout and then on stderr:
\* the child has exited and the pipes are drained
MonitorEof(r) ==
    /\ mpc[r] = "read"
    /\ msrc[r][1] \notin alive
    /\ msrc' = [msrc EXCEPT ![r] = None]
    /\ mpc' = [mpc EXCEPT ![r] = "done"]
    /\ events' = <<>>
    /\ UNCHANGED <<commandVars, status, ready, holder, childLock, statusLock, alive,
                   pipeVars, observed, hostVars, nruns, workerVars, mport,
                   buffer, timerVars, watcherVars>>

\* process_stream: buffer.clear() and reader.read_line(&mut buffer) return a
\* non-empty line
MonitorRead(r) ==
    /\ mpc[r] = "read"
    /\ \E line \in LineInputs : buffer' = [buffer EXCEPT ![r] = Some(line)]
    /\ mpc' = [mpc EXCEPT ![r] = "match"]
    /\ events' = <<>>
    /\ UNCHANGED <<commandVars, status, ready, holder, childLock, statusLock, alive,
                   pipeVars, observed, hostVars, nruns, workerVars, msrc,
                   mport, timerVars, watcherVars>>

\* process_stream: ready.load() and the patterns on the line in the buffer;
\* with a port, mark_ready is called, else the loop continues
MonitorMatch(r) ==
    /\ mpc[r] = "match"
    /\ LET port == ExtractPort(buffer[r][1])
       IN  IF ready \/ ~IsSome(port)
           THEN /\ mpc' = [mpc EXCEPT ![r] = "read"]
                /\ mport' = mport
           ELSE /\ mpc' = [mpc EXCEPT ![r] = "mark_store"]
                /\ mport' = [mport EXCEPT ![r] = port]
    /\ buffer' = [buffer EXCEPT ![r] = None]
    /\ events' = <<>>
    /\ UNCHANGED <<commandVars, status, ready, holder, childLock, statusLock, alive,
                   pipeVars, observed, hostVars, nruns, workerVars, msrc,
                   timerVars, watcherVars>>

Monitor(r) ==
    \/ MonitorTake(r)
    \/ MonitorSkip(r)
    \/ MonitorLine(r)
    \/ MonitorStoreReady(r)
    \/ MonitorMarkReady(r)
    \/ MonitorEof(r)

-----------------------------------------------------------------------------
(* The readiness timer of run r.                                           *)

\* thread::sleep(timeout) returns; ready_clone.load()
TimerWake(r) ==
    /\ tpc[r] = "sleep"
    /\ tpc' = [tpc EXCEPT ![r] = IF ready THEN "done" ELSE "lock_status"]
    /\ events' = <<>>
    /\ UNCHANGED <<commandVars, status, ready, holder, childLock, statusLock, alive,
                   pipeVars, observed, hostVars, nruns, workerVars,
                   monitorVars, watcherVars>>

\* status_clone.lock(), state = Error and the message; the guard is kept
TimerLockStatus(r) ==
    /\ tpc[r] = "lock_status"
    /\ statusLock = FreeLock
    /\ statusLock' = <<"timer", r>>
    /\ status' = TimeoutStatus(status)
    /\ tpc' = [tpc EXCEPT ![r] = "lock_child"]
    /\ events' = <<>>
    /\ UNCHANGED <<commandVars, ready, holder, childLock, alive, pipeVars, observed,
                   hostVars, nruns, workerVars, monitorVars, watcherVars>>

\* child_holder_clone.lock() with the status guard held, child.kill() on
\* the Child in the holder, the two emits, and the return
TimerKill(r) ==
    /\ tpc[r] = "lock_child"
    /\ childLock = FreeLock
    /\ alive' = alive \ Held
    /\ events' = <<ErrorEvent(TimeoutMessage), StatusEvent(status)>>
    /\ statusLock' = FreeLock
    /\ tpc' = [tpc EXCEPT ![r] = "done"]
    /\ UNCHANGED <<commandVars, status, ready, holder, childLock, pipeVars, observed,
                   hostVars, nruns, workerVars, monitorVars, watcherVars>>

Timer(r) == TimerWake(r) \/ TimerLockStatus(r) \/ TimerKill(r)

-----------------------------------------------------------------------------
(* The exit watcher of run r.                                              *)

\* child_holder.lock(); with a Child in the holder the guard is kept for
\* child.wait(), else code is None
WatcherLock(r) ==
    /\ xpc[r] = "lock"
    /\ childLock = FreeLock
    /\ childLock' = IF IsSome(holder) THEN <<"watcher", r>> ELSE FreeLock
    /\ xchild' = [xchild EXCEPT ![r] = holder]
    /\ xpc' = [xpc EXCEPT ![r] = IF IsSome(holder) THEN "wait" ELSE "classify"]
    /\ events' = <<>>
    /\ UNCHANGED <<commandVars, status, ready, holder, statusLock, alive, pipeVars,
                   observed, hostVars, nruns, workerVars, monitorVars,
                   timerVars>>

\* child.wait() returns: the child has exited; the guard drops
WatcherWait(r) ==
    /\ xpc[r] = "wait"
    /\ xchild[r][1] \notin alive
    /\ childLock' = FreeLock
    /\ xpc' = [xpc EXCEPT ![r] = "classify"]
    /\ events' = <<>>
    /\ UNCHANGED <<commandVars, status, ready, holder, statusLock, alive, pipeVars,
                   observed, hostVars, nruns, workerVars, monitorVars,
                   timerVars, xchild>>

\* status_clone.lock(), the classification, and the emits
WatcherClassify(r) ==
    /\ xpc[r] = "classify"
    /\ statusLock = FreeLock
    /\ status' = ExitStatus(status, xchild[r])
    /\ events' = IF ExitFailed(status)
                 THEN <<ErrorEvent(UnwrapOrDefault(status'.error)),
                        StatusEvent(status')>>
                 ELSE <<StatusEvent(status')>>
    /\ xpc' = [xpc EXCEPT ![r] = "done"]
    /\ xchild' = [xchild EXCEPT ![r] = None]
    /\ observed' = observed \ {r}
    /\ readyAlive' = readyAlive \ {r}
    /\ UNCHANGED <<commandVars, ready, holder, childLock, statusLock, alive, taken,
                   hostVars, nruns, workerVars, monitorVars, timerVars>>

Watcher(r) == WatcherLock(r) \/ WatcherWait(r) \/ WatcherClassify(r)

-----------------------------------------------------------------------------
(* The child process c: it exits, on its own or in answer to SIGTERM.      *)
ChildExit(c) ==
    /\ c \in alive
    /\ alive' = alive \ {c}
    /\ events' = <<>>
    /\ UNCHANGED <<commandVars, status, ready, holder, childLock, statusLock, pipeVars,
                   observed, hostVars, nruns, workerVars, monitorVars,
                   timerVars, watcherVars>>

-----------------------------------------------------------------------------
Worker ==
    \/ \E r \in Runs : Setup(r)
    \/ \E r \in Runs : Monitor(r)
    \/ \E r \in Runs : Timer(r)
    \/ \E r \in Runs : Watcher(r)

Environment == \E c \in Runs : ChildExit(c)

\* The host calls start and stop.
Next == HostCall \/ HostStep \/ Worker \/ Environment

Spec == Init /\ [][Next]_vars

\* The host calls start and cli_restart.
NextRestart ==
    HostCallRestart \/ HostStep \/ RestartStatus \/ Worker \/ Environment

RestartSpec == Init /\ [][NextRestart]_vars

-----------------------------------------------------------------------------
(* Scheduling.  Every thread of the program that can take a step           *)
(* eventually takes one; the child is not obliged to exit or to print, and *)
(* the host is not obliged to call.                                        *)

\* The steps of the monitor that do not wait for a line of the child.
MonitorProgress(r) ==
    \/ MonitorTake(r)
    \/ MonitorStoreReady(r)
    \/ MonitorMarkReady(r)
    \/ MonitorEof(r)

Fairness ==
    /\ WF_vars(HostStep)
    /\ \A r \in Runs :
          /\ WF_vars(Setup(r))
          /\ WF_vars(MonitorProgress(r))
          /\ WF_vars(Timer(r))
          /\ WF_vars(Watcher(r))

\* One start call, and stop calls.
NextOneRun ==
    \/ CallStop
    \/ (nruns = 0 /\ CallStart)
    \/ HostStep
    \/ Worker
    \/ Environment

FairSpec == Init /\ [][NextOneRun]_vars /\ Fairness

\* One start call, then one cli_restart call.
NextStartRestart ==
    \/ (nruns = 0 /\ CallStart)
    \/ (nruns = 1 /\ CallRestart)
    \/ HostStep
    \/ RestartStatus
    \/ Worker
    \/ Environment

FairRestartSpec ==
    Init /\ [][NextStartRestart]_vars /\ Fairness /\ WF_vars(RestartStatus)

\* One start call, and stop calls; the monitor reads the lines of LineInputs.
NextLine ==
    \/ (nruns = 0 /\ CallStart)
    \/ CallStop
    \/ StopLock
    \/ StopPoll
    \/ StopStatus
    \/ StartReady
    \/ StartSet
    \/ StartEmit
    \/ StartSpawn
    \/ \E r \in Runs : Setup(r)
    \/ \E r \in Runs : MonitorTake(r)
    \/ \E r \in Runs : MonitorRead(r)
    \/ \E r \in Runs : MonitorMatch(r)
    \/ \E r \in Runs : MonitorStoreReady(r)
    \/ \E r \in Runs : MonitorMarkReady(r)
    \/ \E r \in Runs : MonitorEof(r)
    \/ \E r \in Runs : Timer(r)
    \/ \E r \in Runs : Watcher(r)
    \/ Environment

LineSpec == Init /\ [][NextLine]_vars

-----------------------------------------------------------------------------
(* CliEntry::resolve.  The disk is given by which candidate path of each   *)
(* list exists; a resolved path is the position of the candidate found.    *)

\* first_existing: the first candidate that exists
first_existing(paths) ==
    IF \E i \in DOMAIN paths : paths[i]
    THEN Some(CHOOSE i \in DOMAIN paths :
                 paths[i] /\ \A j \in 1..(i - 1) : ~paths[j])
    ELSE None

\* node_modules/tsx/dist/cli.js under the current directory, or beside the
\* executable
resolve_tsx(d) == first_existing(d.tsx)

\* packages/server/src/index.ts, or ../server/src/index.ts
resolve_dev_entry(d) == first_existing(d.dev_entry)

\* the dist/bin.js and dist/index.js candidates
resolve_dist_entry(d) == first_existing(d.dist)

ResolveError ==
    "Unable to locate CodeNomad CLI build (dist/bin.js). Please build @neuralnomads/codenomad."

\* CliEntry::resolve(app, dev)
resolve(d, dv) ==
    IF dv /\ IsSome(resolve_tsx(d)) /\ IsSome(resolve_dev_entry(d))
    THEN [ok |-> TRUE, entry |-> <<"dev_entry", resolve_dev_entry(d)[1]>>,
          runner |-> "Tsx", runner_path |-> Some(resolve_tsx(d)[1]),
          error |-> None]
    ELSE IF IsSome(resolve_dist_entry(d))
    THEN [ok |-> TRUE, entry |-> <<"dist", resolve_dist_entry(d)[1]>>,
          runner |-> "Node", runner_path |-> None, error |-> None]
    ELSE [ok |-> FALSE, entry |-> <<>>, runner |-> "none",
          runner_path |-> None, error |-> Some(ResolveError)]

\* The disks resolve is called on.
DiskInputs ==
    [tsx : [1..2 -> BOOLEAN], dev_entry : [1..2 -> BOOLEAN],
     dist : [1..DistCandidates -> BOOLEAN]]

\* spawn_cli: let resolution = CliEntry::resolve(&app, dev)
Resolve ==
    /\ resolution = None
    /\ resolution' = Some(resolve(disk, dev))
    /\ UNCHANGED <<managerVars, dev, disk, token, quoted>>

ResolveInit ==
    /\ ManagerInit
    /\ dev \in BOOLEAN
    /\ disk \in DiskInputs
    /\ resolution = None
    /\ token = <<>>
    /\ quoted = None

ResolveSpec == ResolveInit /\ [][Resolve]_vars

-----------------------------------------------------------------------------
(* shell_escape.  A string is a sequence of characters.                    *)

\* The characters of the tokens given to shell_escape.
ShellChars == {"a", " ", "'", "$", ";", "\\"}

\* The double quote character.
DoubleQuote == "<dq>"

\* The backquote character.
Backquote == "<bq>"

\* The tokens given to shell_escape.
Tokens == UNION {[1..n -> ShellChars] : n \in 0..MaxTokenLen}

\* shell_escape: the characters of the matches! pattern (space, double
\* quote, single quote, dollar, backquote, exclamation mark)
QuoteTriggers == {" ", DoubleQuote, "'", "$", Backquote, "!"}

RECURSIVE ReplaceQuotes(_)
\* input.replace: every single quote becomes quote, backslash, quote, quote
ReplaceQuotes(str) ==
    IF str = <<>> THEN <<>>
    ELSE (IF Head(str) = "'" THEN <<"'", "\\", "'", "'">> ELSE <<Head(str)>>)
            \o ReplaceQuotes(Tail(str))

\* fn shell_escape(input: &str) -> String
shell_escape(input) ==
    IF input = <<>> THEN <<"'", "'">>
    ELSE IF ~\E i \in DOMAIN input : input[i] \in QuoteTriggers THEN input
    ELSE <<"'">> \o ReplaceQuotes(input) \o <<"'">>

\* build_shell_command_string: quoted.push(shell_escape(&arg))
Escape ==
    /\ quoted = None
    /\ quoted' = Some(shell_escape(token))
    /\ UNCHANGED <<managerVars, dev, disk, resolution, token>>

EscapeInit ==
    /\ ManagerInit
    /\ dev = FALSE
    /\ disk = EmptyDisk
    /\ resolution = None
    /\ token \in Tokens
    /\ quoted = None

EscapeSpec == EscapeInit /\ [][Escape]_vars

-----------------------------------------------------------------------------
(* Properties.                                                             *)

\* C1: at most one spawned child process is alive at any time, for every
\* interleaving of start and stop calls with the setup workers.
AtMostOneChildAlive == Cardinality(alive) <= 1

\* The host thread is inside a stop() call.
InStop == cpc \in {"stop_lock", "stop_poll", "stop_status"}

\* The host's last call was stop, and it has returned.
HostStopReturned == cpc = "idle" /\ cop = "stop"

\* C2: after stop has returned and until the next start call, no child is
\* alive and status is Stopped with pid, port, url and error empty.
StoppedStaysStopped ==
    HostStopReturned => (alive = {} /\ status = DefaultStatus)

\* C3: every stop call (the host's, and the one start performs first)
\* returns, also when the child never exits on its own.
StopReturns == InStop ~> ~InStop

\* The timer of run r has woken with the ready flag unset while child r runs.
TimedOut(r) == tpc[r] = "lock_status" /\ r \in alive

\* C4: when the deadline of run r elapses without readiness and with the
\* child still running, status becomes Error with the message "CLI did not
\* start in time", and the child is eventually no longer running.
TimeoutEndsChild ==
    \A r \in Runs :
       /\ TimedOut(r) ~> (status.state = "Error"
                          /\ status.error = Some(TimeoutMessage))
       /\ TimedOut(r) ~> (r \notin alive)

\* C5: port and url are populated exactly when the state is Ready.
PortUrlIffReady ==
    /\ status.state = "Ready" => (IsSome(status.port) /\ IsSome(status.url))
    /\ status.state # "Ready" => (status.port = None /\ status.url = None)

\* C6: error is non-empty exactly when the state is Error.
ErrorIffErrorState == IsSome(status.error) <=> status.state = "Error"

\* C6 witness: the exit watcher has classified an early exit after a stop,
\* and the status carries its message with state Error.
ErrorIffErrorStateWitness ==
    /\ status.state = "Error"
    /\ status.error = Some(EarlyExitMessage(None))
    /\ \E r \in Runs : xpc[r] = "done"

\* The state changes a run allows to its workers.
RunTransitions ==
    {<<"Starting", "Ready">>, <<"Starting", "Error">>, <<"Ready", "Stopped">>}

\* C7: a worker changes the state only Starting->Ready, Starting->Error or
\* Ready->Stopped; any other change is stop's reset to Stopped or start's
\* reset to Starting.
OnlyRunTransitions ==
    [][status'.state # status.state =>
          \/ <<status.state, status'.state>> \in RunTransitions
          \/ (cpc = "stop_status" /\ cpc' # cpc /\ status'.state = "Stopped")
          \/ (cpc = "start_set" /\ cpc' # cpc /\ status'.state = "Starting")
      ]_vars

\* The run whose start has last reset the status.
CurrentRun == IF cpc \in {"start_emit", "start_spawn"} THEN nruns + 1 ELSE nruns

\* C8: once a new start has reset the ready flag and the status, no output
\* monitor and no exit watcher of an earlier run changes the ready flag or
\* the status.
NoLeakFromEarlierRun ==
    [][\A r \in Runs :
          (r < CurrentRun
           /\ (MonitorStoreReady(r) \/ MonitorMarkReady(r) \/ WatcherClassify(r)))
          => (status' = status /\ ready' = ready)
      ]_vars

\* The host thread is inside cli_restart.
InRestart == cop = "restart" /\ cpc # "idle"

\* C9: a cli_restart call returns, and status becomes Ready or Error.
RestartSettles ==
    /\ InRestart ~> (cpc = "idle")
    /\ InRestart ~> (status.state \in {"Ready", "Error"})

\* cli:error is among the events.
EmitsError(evs) == \E i \in DOMAIN evs : evs[i].name = "cli:error"

\* C10: when the exit watcher of a run classifies the exit and no readiness
\* line was observed for that run, the state becomes Error, the error is
\* recorded (the early-exit message when none was recorded before), and
\* cli:error is emitted.
EarlyExitIsError ==
    [][\A r \in Runs :
          (WatcherClassify(r) /\ r \notin observed)
          => /\ status'.state = "Error"
             /\ IsSome(status'.error)
             /\ (status.error = None
                   => status'.error = Some(EarlyExitMessage(xchild[r])))
             /\ EmitsError(events')
      ]_vars

\* C11: when the exit watcher of a run classifies the exit of a child that
\* was running when the run was marked Ready, the state becomes Stopped, no
\* error is recorded and no cli:error is emitted.
ReadyExitIsStopped ==
    [][\A r \in Runs :
          (WatcherClassify(r) /\ r \in readyAlive)
          => /\ status'.state = "Stopped"
             /\ status'.error = None
             /\ ~EmitsError(events')
      ]_vars

\* cli:ready has been emitted and no start or stop call was made since: the
\* state is Ready (only mark_ready sets it, every start and stop resets it)
\* and the host thread is in no call.
ReadyDeclared == status.state = "Ready" /\ cpc = "idle"

\* C12: within one run the readiness transition executes at most once: once
\* cli:ready was emitted in the run, the ready flag does not go from false to
\* true and no other cli:ready is emitted.
OneReadinessPerRun ==
    [][\A r \in Runs :
          /\ (MonitorStoreReady(r) /\ ~ready) => ~ReadyDeclared
          /\ MonitorMarkReady(r) => ~ReadyDeclared
      ]_vars

\* C13: the status lock is never held forever (a status read completes).
StatusLockReleased == (statusLock # FreeLock) ~> (statusLock = FreeLock)

\* C14: stop leaves state Stopped with pid, port, url and error empty, also
\* when the child handle is empty and when the status is already that of a
\* stop (stop called twice in a row).
StopIdempotent == [][StopStatus => status' = DefaultStatus]_vars

\* C14 witness: a stop call has returned, and the stop of the start call after
\* it (which found the child handle empty) has returned with the same status.
StopIdempotentWitness ==
    /\ nstops = 1
    /\ cop = "start"
    /\ cpc = "start_ready"
    /\ nruns = 0
    /\ status = DefaultStatus

\* The ports of PortInputs that parse as u16.
U16Inputs == {p \in PortInputs : p \in 0..65535}

\* mark_ready has set Ready with port mport[r] and the url of that port.
MarkedReadyWith(r) ==
    MonitorMarkReady(r)
    => /\ status'.state = "Ready"
       /\ status'.port = mport[r]
       /\ status'.url = Some(ReadyUrl(mport[r][1]))

\* Matching the line with the ready flag unset calls mark_ready with port p.
MatchCallsMarkReady(r, line, p) ==
    (MonitorMatch(r) /\ buffer[r] = Some(line) /\ ~ready)
    => (mpc'[r] = "mark_store" /\ mport'[r] = Some(p))

\* C15: with readiness not declared, the line "CodeNomad Server is ready at
\* http://<host>:<p>", p in 0..65535, makes the monitor call mark_ready with
\* p, which sets Ready with port p and url http://127.0.0.1:<p>.
ReadyAtLineMarksReady ==
    [][\A r \in Runs :
          /\ \A p \in U16Inputs : MatchCallsMarkReady(r, ReadyAtLine(p), p)
          /\ MarkedReadyWith(r)
      ]_vars

\* C15 witness: the status is Ready with the largest u16 port and its url.
ReadyAtLineMarksReadyWitness ==
    /\ status.state = "Ready"
    /\ status.port = Some(65535)
    /\ status.url = Some(ReadyUrl(65535))

\* C16: with readiness not declared, the non-JSON line "HTTP server listening
\* on :<p>" (p of two to five digits) makes the monitor call mark_ready with
\* p, which sets Ready with port p.
ListeningTextMarksReady ==
    [][\A r \in Runs :
          /\ \A p \in U16Inputs \cap (10..65535) :
                MatchCallsMarkReady(r, ListeningTextLine(p), p)
          /\ MarkedReadyWith(r)
      ]_vars

\* C17: with readiness not declared, the JSON line {"msg":"http server
\* listening","port":<p>} makes the monitor call mark_ready with p: the port
\* of the status is never another number than the one in the line.
ListeningJsonMarksReady ==
    [][\A r \in Runs :
          /\ \A p \in PortInputs :
                MatchCallsMarkReady(r, ListeningJsonLine(p), p)
          /\ MarkedReadyWith(r)
      ]_vars

\* cli:status with a snapshot in state st is among the events.
EmitsStatus(evs, st) ==
    \E i \in DOMAIN evs :
       evs[i].name = "cli:status" /\ evs[i].payload.state = st

\* C18: every change of the state is emitted as cli:status with the new
\* state, by the step that changes it or (start, the timer) by the next
\* step of the thread that changed it.
StateChangeEmitted ==
    [][status'.state # status.state =>
          \/ EmitsStatus(events', status'.state)
          \/ (cpc = "start_set" /\ cpc' = "start_emit")
          \/ \E r \in Runs : tpc[r] = "lock_status" /\ tpc'[r] = "lock_child"
      ]_vars

\* cli:error with the message is among the events.
EmitsErrorMessage(evs, msg) == \E i \in DOMAIN evs : evs[i] = ErrorEvent(msg)

\* C19: every step that changes the state to Error emits cli:error with the
\* error it records; the timer, which emits after child.kill(), eventually
\* emits cli:error with its message.
ErrorHasEvent ==
    /\ [][(status'.state = "Error" /\ status.state # "Error") =>
             \/ EmitsErrorMessage(events', UnwrapOrDefault(status'.error))
             \/ \E r \in Runs :
                   tpc[r] = "lock_status" /\ tpc'[r] = "lock_child"
         ]_vars
    /\ \A r \in Runs :
          (tpc[r] = "lock_child") ~> EmitsErrorMessage(events, TimeoutMessage)

\* C20: a timer that wakes with the ready flag set changes no status field,
\* kills no child and emits nothing; the timer sets Error and kills the child
\* only while the ready flag is unset and its run was not marked Ready.
TimerSparesReadyRun ==
    [][\A r \in Runs :
          /\ (TimerWake(r) /\ ready)
             => /\ status' = status
                /\ alive' = alive
                /\ events' = <<>>
                /\ tpc'[r] = "done"
          /\ (TimerLockStatus(r) \/ TimerKill(r))
             => (~ready /\ r \notin observed)
      ]_vars

\* C21: the timer of run r sets Error only in run r and not on a status that
\* is Stopped, and kills no child but that of run r.
TimerActsOnOwnRun ==
    [][\A r \in Runs :
          /\ TimerLockStatus(r)
             => (r = CurrentRun /\ status.state # "Stopped")
          /\ TimerKill(r) => Held \subseteq {r}
      ]_vars

\* C22: the cli:status that start emits carries state Starting with pid,
\* port, url and error empty, and the setup worker of this start is not
\* spawned yet and has spawned no child.
StartEmitsStarting ==
    [][StartEmit
          => /\ events' = <<StatusEvent(StartingStatus(DefaultStatus))>>
             /\ wpc[nruns + 1] = "idle"
             /\ (nruns + 1) \notin alive
      ]_vars

\* C23: once readiness was declared in the run, no step changes port or
\* url, and no monitor that reads a line calls mark_ready; it goes on
\* reading.
LaterLinesIgnored ==
    [][ReadyDeclared
          => /\ status'.port = status.port
             /\ status'.url = status.url
             /\ \A r \in Runs :
                   mpc[r] \in {"read", "match"}
                   => mpc'[r] \in {"read", "match", "done"}
      ]_vars

\* C24: when the exit watcher classifies an exit as an early failure, it
\* sets Error and leaves a message already recorded unchanged; with no
\* message recorded it records the early-exit message.
WatcherKeepsError ==
    [][\A r \in Runs :
          (WatcherClassify(r) /\ ExitFailed(status))
          => /\ status'.state = "Error"
             /\ IsSome(status.error) => status'.error = status.error
             /\ status.error = None
                  => status'.error = Some(EarlyExitMessage(xchild[r]))
      ]_vars

\* C24 witness: the timer and the exit watcher of a run have both finished,
\* and the status is Error with the timeout message.
WatcherKeepsErrorWitness ==
    \E r \in Runs :
       /\ tpc[r] = "done"
       /\ xpc[r] = "done"
       /\ status.state = "Error"
       /\ status.error = Some(TimeoutMessage)

\* C25: port and url are both set or both empty, and a url that is set is
\* http://127.0.0.1:<port> for the port that is set.
UrlMatchesPort ==
    /\ IsSome(status.port) <=> IsSome(status.url)
    /\ IsSome(status.port) => status.url = Some(ReadyUrl(status.port[1]))

\* C25 witness: port 6000 and its url are set.
UrlMatchesPortWitness ==
    /\ status.port = Some(6000)
    /\ status.url = Some(ReadyUrl(6000))

\* The word a POSIX shell makes of the control operator ";".
ControlOperator == <<"<;>">>

\* What a POSIX shell puts in the place of "$a": the value of the parameter.
Expansion == "<$a>"

RECURSIVE ShellWords(_, _, _, _)
\* The words a POSIX shell splits the string str into, with quote removal:
\* mode is "plain" or "single" (inside single quotes), word is the word
\* begun so far, inword tells whether a word was begun.
ShellWords(str, mode, word, inword) ==
    IF str = <<>> THEN (IF inword THEN <<word>> ELSE <<>>)
    ELSE LET c == Head(str)
             rest == Tail(str)
             done == IF inword THEN <<word>> ELSE <<>>
         IN  IF mode = "single"
             THEN IF c = "'"
                  THEN ShellWords(rest, "plain", word, TRUE)
                  ELSE ShellWords(rest, "single", Append(word, c), TRUE)
             ELSE CASE c = " " ->
                         done \o ShellWords(rest, "plain", <<>>, FALSE)
                    [] c = "'" -> ShellWords(rest, "single", word, TRUE)
                    [] c = "\\" ->
                         IF rest = <<>>
                         THEN ShellWords(rest, "plain", Append(word, c), TRUE)
                         ELSE ShellWords(Tail(rest), "plain",
                                         Append(word, Head(rest)), TRUE)
                    [] c = ";" ->
                         done \o <<ControlOperator>>
                              \o ShellWords(rest, "plain", <<>>, FALSE)
                    [] c = "$" /\ rest # <<>> /\ Head(rest) = "a" ->
                         ShellWords(Tail(rest), "plain",
                                    Append(word, Expansion), TRUE)
                    [] OTHER ->
                         ShellWords(rest, "plain", Append(word, c), TRUE)

\* C26: the string shell_escape makes of a token is split by a POSIX shell
\* into exactly one word, the token.
EscapeRoundTrips ==
    IsSome(quoted) => ShellWords(quoted[1], "plain", <<>>, FALSE) = <<token>>

\* Some candidate of the list exists on disk.
AnyExists(paths) == \E i \in DOMAIN paths : paths[i]

\* C27: resolve returns an entry whenever a built artifact or the
\* development entry exists on disk, for every value of the dev flag and of
\* the existence of the runner script.
ResolveFindsEntry ==
    (IsSome(resolution) /\ (AnyExists(disk.dist) \/ AnyExists(disk.dev_entry)))
    => resolution[1].ok

====
